---- MODULE Spec2Model ----
(***************************************************************************)
(* The read-path cache of the blog server: the cache middleware            *)
(* (server/middleware/cache.js), the blog routes (server/routes/blogs.js)  *)
(* and the blog controller (server/controllers/blogController.js) over a   *)
(* document store and a Redis key-value store.                             *)
(*                                                                         *)
(* Strings of the program (URLs, cache keys, glob patterns) are sequences  *)
(* of lexical tokens: "/api/blogs" is <<"/", "api", "/", "blogs">>, and    *)
(* string concatenation is \o.  A request runs as a sequence of steps, one *)
(* per store or Redis command it awaits; all Redis commands travel over    *)
(* one connection and take effect in the order they are issued.            *)
(***************************************************************************)
EXTENDS Integers, Sequences, FiniteSets, TLC

\* ------------------------------------------------------------- bounds
\* requests of a run of sequential requests
MaxRequests == 3
\* requests of a run of concurrent requests, all of which may be in flight together
MaxInFlight == 2
\* steps of CacheTTL seconds the clock makes
MaxTicks == 1
\* number of requests the clients send while Redis can fail
MaxFaultyRequests == 2
\* largest limit findTrending is called with
MaxLimit == 2
\* largest total count a pagination is computed for
MaxTotal == 25
\* longest search parameter and longest text a search pattern is applied to
MaxSearchLen == 3
MaxTextLen == 3

\* ---------------------------------------------------------- constants
CacheTTL == 300
TrendingTTL == 600

\* -------------------------------------------------------------- users
NoUser == "none"
Users == {"u1", "u2"}
Callers == Users \cup {NoUser}

\* role of the user document loaded by the auth middleware
RoleOf(u) == "user"

\* ---------------------------------------------------------------- URLs
BlogIds == <<"b1", "b2">>

ApiBlogs == <<"/", "api", "/", "blogs">>
ApiTrending == ApiBlogs \o <<"/", "trending">>
ApiBlog(id) == ApiBlogs \o <<"/", id>>

ParamTokens == {"page=1", "limit=10"}

\* the parsed req.query of a URL: the set of its name=value pairs
QueryOf(url) == {url[n] : n \in {m \in DOMAIN url : url[m] \in ParamTokens}}

\* the path of a URL: everything before the "?"
RECURSIVE PathOf(_)
PathOf(url) ==
  IF url = <<>> \/ Head(url) = "?" THEN <<>>
  ELSE <<Head(url)>> \o PathOf(Tail(url))

ListUrls ==
  { ApiBlogs \o <<"?", "page=1", "&", "limit=10">>,
    ApiBlogs \o <<"?", "limit=10", "&", "page=1">> }
TrendingUrls == { ApiTrending }
ItemUrls == { ApiBlog(BlogIds[1]) }

\* --------------------------------------------------------- cache keys
\* the key prefix and the TTL of the three cache middlewares
KeyPrefix(route) ==
  CASE route = "trending" -> "trending"
    [] route = "item" -> "blog"
    [] route = "list" -> "blogs"

\* one TTL for every route
RouteTTL_Same(route) == CacheTTL

RouteTTL(route) ==
  CASE route = "trending" -> TrendingTTL
    [] route = "item" -> CacheTTL
    [] route = "list" -> CacheTTL

\* a key without the requester's id
generateCacheKey_NoUserId(user, url, prefix) ==
  LET userRole == IF user # NoUser THEN RoleOf(user) ELSE "guest"
  IN <<prefix, ":", userRole, ":">> \o url

\* a key built from req.path, which has no query string
generateCacheKey_PathOnly(user, url, prefix) ==
  LET userId == IF user # NoUser THEN user ELSE "anonymous"
      userRole == IF user # NoUser THEN RoleOf(user) ELSE "guest"
  IN <<prefix, ":", userRole, ":", userId, ":">> \o PathOf(url)

\* `${prefix}:${userRole}:${userId}:${url}`
generateCacheKey(user, url, prefix) ==
  LET userId == IF user # NoUser THEN user ELSE "anonymous"
      userRole == IF user # NoUser THEN RoleOf(user) ELSE "guest"
  IN <<prefix, ":", userRole, ":", userId, ":">> \o url

\* Redis glob matching of KEYS: "*" matches any run of tokens
RECURSIVE GlobMatch(_, _)
GlobMatch(p, s) ==
  IF p = <<>> THEN s = <<>>
  ELSE IF Head(p) = "*"
    THEN GlobMatch(Tail(p), s) \/ (s # <<>> /\ GlobMatch(p, Tail(s)))
    ELSE s # <<>> /\ Head(s) = Head(p) /\ GlobMatch(Tail(p), Tail(s))

\* clearCache's default pattern, which matches every key
RoutePattern_Everything(route) == <<"*">>

\* `cache:*:*:${route}*`
RoutePattern(route) == <<"cache", ":", "*", ":", "*", ":">> \o route \o <<"*">>

\* ------------------------------------------------------------ the store
NoDate == 0 - 1
DaySeconds == 86400

\* the document created by `new Blog(blogData)` and its pre('save') hook
NewBlog(author, status, t) ==
  [ author |-> author, status |-> status, views |-> 0, likes |-> <<>>,
    comments |-> <<>>,
    publishedAt |-> IF status = "published" THEN t ELSE NoDate ]

\* a stored document as a handler returns it
Doc(store, id) == [ id |-> id, doc |-> store[id] ]

\* ids in creation order, newest first (sort createdAt: -1)
RECURSIVE NewestFirst(_, _)
NewestFirst(store, n) ==
  IF n = 0 THEN <<>>
  ELSE (IF BlogIds[n] \in DOMAIN store /\ store[BlogIds[n]].status = "published"
          THEN <<BlogIds[n]>> ELSE <<>>) \o NewestFirst(store, n - 1)

\* a query parameter as req.query holds it: the characters of its value, or the
\* default of the destructuring when the parameter is absent
ParamValue(query, name, default) ==
  CASE name = "page" /\ "page=1" \in query -> <<"1">>
    [] name = "limit" /\ "limit=10" \in query -> <<"1", "0">>
    [] OTHER -> default

CeilDiv(a, b) == (a + b - 1) \div b

Min(a, b) == IF a < b THEN a ELSE b

\* the decimal digits and the value of a run of them
DigitChars == <<"0", "1", "2", "3", "4", "5", "6", "7", "8", "9">>

DigitValue(c) == (CHOOSE n \in DOMAIN DigitChars : DigitChars[n] = c) - 1

RECURSIVE Decimal(_)
Decimal(s) ==
  IF s = <<>> THEN 0 ELSE Decimal(SubSeq(s, 1, Len(s) - 1)) * 10 + DigitValue(s[Len(s)])

\* parseInt of a numeral: an optional minus sign, then digits
parseInt(s) == IF s[1] = "-" THEN 0 - Decimal(Tail(s)) ELSE Decimal(s)

\* the number a comparison operator makes of a numeral
ToNumber(s) == IF s[1] = "-" THEN 0 - Decimal(Tail(s)) ELSE Decimal(s)

\* a pagination whose page count rounds down
Pagination_Floor(page, limit, total) ==
  LET limitNum == parseInt(limit)
      totalPages == total \div limitNum
  IN [ skip |-> (parseInt(page) - 1) * limitNum, limit |-> limitNum,
       currentPage |-> parseInt(page), totalPages |-> totalPages, totalBlogs |-> total,
       hasNextPage |-> ToNumber(page) < totalPages, hasPrevPage |-> ToNumber(page) > 1 ]

\* the offset and the page size getBlogs and getUserBlogs pass to the store, and the
\* pagination they return for a total count
Pagination(page, limit, total) ==
  LET skip == (parseInt(page) - 1) * parseInt(limit)
      limitNum == parseInt(limit)
      totalPages == CeilDiv(total, limitNum)
  IN [ skip |-> skip, limit |-> limitNum, currentPage |-> parseInt(page),
       totalPages |-> totalPages, totalBlogs |-> total,
       hasNextPage |-> ToNumber(page) < totalPages, hasPrevPage |-> ToNumber(page) > 1 ]

\* the body getBlogs passes to res.json
getBlogs(store, query) ==
  LET ids == NewestFirst(store, Len(BlogIds))
      total == Len(ids)
      p == Pagination(ParamValue(query, "page", <<"1">>),
                      ParamValue(query, "limit", <<"1", "0">>), total)
      shown == SubSeq(ids, p.skip + 1, Min(total, p.skip + p.limit))
  IN [ success |-> TRUE,
       blogs |-> [n \in DOMAIN shown |-> Doc(store, shown[n])],
       pagination |-> [ currentPage |-> p.currentPage, totalPages |-> p.totalPages,
                        totalBlogs |-> total, hasNextPage |-> p.hasNextPage,
                        hasPrevPage |-> p.hasPrevPage, limit |-> p.limit ] ]

\* the virtuals likesCount, commentsCount and trendingScore of a document
likesCount(d) == Len(d.likes)
commentsCount(d) == Len(d.comments)
trendingScore(d) == d.views * 1 + likesCount(d) * 5 + commentsCount(d) * 10

\* the sum the comment on the virtual names: views + likes + comments
TrendingScore_Unweighted(d) == d.views + Len(d.likes) + Len(d.comments)

\* the score the findTrending pipeline adds to a document
TrendingScore(d) == d.views + Len(d.likes) * 5 + Len(d.comments) * 10

\* a $match stage that leaves out the status
TrendingEligible_AnyStatus(store, t, timeframe) ==
  { id \in DOMAIN store :
      /\ store[id].publishedAt # NoDate
      /\ store[id].publishedAt >= t - timeframe * DaySeconds }

\* the documents the $match stage of findTrending keeps
TrendingEligible(store, t, timeframe) ==
  { id \in DOMAIN store :
      /\ store[id].status = "published"
      /\ store[id].publishedAt # NoDate
      /\ store[id].publishedAt >= t - timeframe * DaySeconds }

\* a pipeline without its $sort stage: the documents in any order
TrendingOrders_Unsorted(store, ids) ==
  { s \in [1..Cardinality(ids) -> ids] : \A a, b \in DOMAIN s : a # b => s[a] # s[b] }

\* every order the $sort stage may produce: non-increasing score, ties in any order
TrendingOrders(store, ids) ==
  { s \in [1..Cardinality(ids) -> ids] :
      /\ \A a, b \in DOMAIN s : a # b => s[a] # s[b]
      /\ \A a, b \in DOMAIN s :
           a < b => TrendingScore(store[s[a]]) >= TrendingScore(store[s[b]]) }

\* the body getTrendingBlogs passes to res.json, for one order of the pipeline
getTrendingBlogs(store, order, limit) ==
  [ success |-> TRUE,
    blogs |-> [n \in 1..Min(limit, Len(order)) |->
                 [ id |-> order[n], doc |-> store[order[n]],
                   trendingScore |-> TrendingScore(store[order[n]]) ]] ]

NotFound == [ success |-> FALSE, message |-> "Blog not found" ]
ServerError == [ success |-> FALSE, message |-> "Server error" ]
NoBody == [ success |-> FALSE, message |-> "" ]

\* a serialization that keeps only the success flag
Stringify_Lossy(body) == [ json |-> [ success |-> body.success, message |-> "" ] ]

\* JSON.stringify of the body given to res.json, and JSON.parse of a cached value:
\* only the body is serialized, the response status is not part of it
Stringify(body) == [ json |-> body ]
Parse(value) == value.json

Null == [ json |-> NoBody ]

\* --------------------------------------------------------------- state
VARIABLES
  blogs,     \* the blog collection: id -> document
  nextId,    \* number of blogs ever created
  storeVer,  \* number of writes the store has applied
  cache,     \* Redis: key -> entry
  now,       \* seconds since start
  req,       \* the requests in flight and their responses: slot -> request record
  nreq,      \* number of requests that may still arrive
  conc,      \* number of requests the clients keep in flight at once
  acked,     \* per read URL, the newest store version a responded write covers
  redis,     \* the Redis client as the server finds it
  expired,   \* the keys whose entry Redis dropped at the end of its TTL
  args,      \* the arguments of a function called on its own
  result     \* what that call returned

vars == <<blogs, nextId, storeVer, cache, now, req, nreq, conc, acked, redis, expired,
          args, result>>

\* no function has been called on its own
NoCall == [ fn |-> "none" ]

Slots == 1..MaxInFlight

\* the Redis client as a request finds it: connected and answering; absent
\* (getRedisClient returns null); rejecting every command; or not answering at all
RedisModes == {"ready", "closed", "failing", "hung"}

ReadRoutes == {"list", "trending", "item"}

ReadUrls == ListUrls \cup TrendingUrls \cup ItemUrls

\* the cached value has no source yet
NoSource == [ prefix |-> "", user |-> NoUser, url |-> <<>>, status |-> 0,
              body |-> NoBody, ver |-> 0, method |-> "" ]

IdleReq ==
  [ kind |-> "none", pc |-> "idle", caller |-> NoUser, user |-> NoUser,
    url |-> <<>>, id |-> "",
    arg |-> "", likes |-> <<>>, key |-> <<>>, status |-> 0, data |-> NoBody,
    body |-> NoBody, xcache |-> "", ran |-> 0, ri |-> 0, found |-> {}, ver |-> 0,
    floor |-> 0, cached |-> FALSE, from |-> NoSource, left |-> {},
    override |-> FALSE, failed |-> FALSE, method |-> "" ]

\* the server after start-up: one published blog, an empty cache
Booted ==
  /\ blogs = [id \in {BlogIds[1]} |-> NewBlog("u1", "published", 0)]
  /\ nextId = 1
  /\ storeVer = 0
  /\ cache = << >>
  /\ now = 0
  /\ req = [i \in Slots |-> IdleReq]
  /\ acked = [u \in ReadUrls |-> 0]
  /\ expired = {}

\* the server once connectRedis has connected
Started == Booted /\ redis = "ready"

\* clients that send one request after the other
Init == Started /\ nreq = MaxRequests /\ conc = 1 /\ args = NoCall /\ result = NoCall

\* clients that send their requests together
InitConc ==
  Started /\ nreq = MaxInFlight /\ conc = MaxInFlight /\ args = NoCall /\ result = NoCall

\* clients that send one request after the other to a server whose Redis can fail
InitFaulty ==
  Started /\ nreq = MaxFaultyRequests /\ conc = 1 /\ args = NoCall /\ result = NoCall

\* the server while connectRedis runs: createClient has assigned redisClient, and
\* connect() is pending, so commands are queued and not answered yet
InitStartup ==
  /\ Booted /\ redis = "hung"
  /\ nreq = 0 /\ conc = 1
  /\ args \in { [ fn |-> "connectRedis", connects |-> b ] : b \in BOOLEAN }
  /\ result = NoCall

\* connectRedis settles: connect() resolves and the client is returned, or it
\* rejects and the catch block returns null; redisClient keeps the client that
\* createClient made in both cases, and after a rejected connect that client
\* rejects its commands or leaves them unanswered; the requests looked at are the
\* ones that arrive from then on
connectRedis ==
  /\ args.fn = "connectRedis" /\ result = NoCall
  /\ nreq' = MaxFaultyRequests
  /\ IF args.connects
       THEN redis' = "ready" /\ result' = [ fn |-> "connectRedis", is |-> "client" ]
       ELSE redis' \in {"failing", "hung"}
              /\ result' = [ fn |-> "connectRedis", is |-> "null" ]
  /\ UNCHANGED <<blogs, nextId, storeVer, cache, now, req, conc, acked, expired, args>>

\* the next request arrives and takes the lowest free slot
Arrives(i) ==
  /\ nreq > 0
  /\ req[i].pc \in {"idle", "done"}
  /\ \A j \in Slots : j < i => req[j].pc \notin {"idle", "done"}
  /\ Cardinality({ j \in Slots : req[j].pc \notin {"idle", "done"} }) < conc

\* an optionalAuth that never sets req.user
optionalAuth_Skip(caller) == NoUser

\* optionalAuth: a valid token of an active user sets req.user
optionalAuth(caller) == IF caller \in Users THEN caller ELSE NoUser

\* the routes whose middleware chain runs optionalAuth before the cache
ResolvesUser(route) == route = "item"

UrlsOf(route) ==
  CASE route = "list" -> ListUrls
    [] route = "trending" -> TrendingUrls
    [] route = "item" -> ItemUrls

\* a Redis that never drops an entry
Unexpired_Keep(c, t) == c

\* the entries Redis still holds at time t
Unexpired(c, t) ==
  LET keep == { k \in DOMAIN c : c[k].exp > t } IN [k \in keep |-> c[k]]

\* a GET that finds nothing
Get_Nothing(c, key) == Null

\* GET key
Get(c, key) == IF key \in DOMAIN c THEN c[key].value ELSE Null

\* a store that keeps the entry a key already has
SetEx_IfAbsent(c, key, entry) ==
  [k \in DOMAIN c \cup {key} |-> IF k \in DOMAIN c THEN c[k] ELSE entry]

\* SETEX key ttl value
SetEx(c, key, entry) == [k \in DOMAIN c \cup {key} |-> IF k = key THEN entry ELSE c[k]]

\* a cache middleware that answers with an error when it cannot read the cache
SkipCache_Error(r) == [ r EXCEPT !.pc = "done", !.status = 500, !.body = ServerError ]

\* a cache middleware whose catch calls next() after the try block already did
SkipCache_Twice(r) == [ r EXCEPT !.pc = "handler", !.ran = 1 ]

\* the cache middleware gives up caching: next() with res.json left alone
SkipCache(r) == [ r EXCEPT !.pc = "handler" ]

\* a method check that lets every method in
Cacheable_Any(method) == TRUE

\* only GET requests are cached
Cacheable(method) == method = "GET"

\* the cache middleware of a GET route up to the cache lookup: for a method other
\* than GET (a HEAD request, which Express routes to the GET handlers), without a client, or
\* when the GET is rejected, it calls next() and leaves res.json alone; a GET that
\* is never answered leaves the request waiting; a hit answers the request, a miss
\* overrides res.json and calls next()
CacheMiddlewareOn(i, method, route, url, caller) ==
  /\ Arrives(i)
  /\ LET user == IF ResolvesUser(route) THEN optionalAuth(caller) ELSE NoUser
         cacheKey == generateCacheKey(user, url, KeyPrefix(route))
         cachedData == Get(cache, cacheKey)
         r == [ IdleReq EXCEPT !.kind = route, !.user = user, !.method = method,
                  !.caller = IF ResolvesUser(route) THEN caller ELSE NoUser,
                  !.url = url,
                  !.id = IF route = "item" THEN url[Len(url)] ELSE "",
                  !.key = cacheKey, !.floor = acked[url],
                  !.cached = cacheKey \in DOMAIN cache ]
     IN IF ~Cacheable(method) \/ redis \in {"closed", "failing"}
          THEN /\ req' = [req EXCEPT ![i] = SkipCache(r)]
               /\ UNCHANGED cache
        ELSE IF redis = "hung"
          THEN /\ req' = [req EXCEPT ![i] = [ r EXCEPT !.pc = "wait" ]]
               /\ UNCHANGED cache
        ELSE IF cachedData # Null
          THEN /\ req' = [req EXCEPT ![i] =
                    [ r EXCEPT !.pc = "done", !.status = 200,
                        !.body = Parse(cachedData), !.xcache = "HIT",
                        !.from = IF r.cached THEN cache[cacheKey].src ELSE NoSource ]]
               /\ cache' = IF r.cached
                             THEN [cache EXCEPT ![cacheKey].hits = @ + 1] ELSE cache
          ELSE /\ req' = [req EXCEPT ![i] =
                    [ r EXCEPT !.pc = "handler", !.override = TRUE ]]
               /\ UNCHANGED cache
  /\ nreq' = nreq - 1
  /\ UNCHANGED <<blogs, nextId, storeVer, now, conc, args, result, redis, expired, acked>>

\* a GET request at the cache middleware
CacheMiddleware(i, route, url, caller) == CacheMiddlewareOn(i, "GET", route, url, caller)

\* a HEAD request arrives on a GET route
HeadRequest ==
  \E i \in Slots, route \in ReadRoutes, caller \in Callers :
    \E url \in UrlsOf(route) : CacheMiddlewareOn(i, "HEAD", route, url, caller)

\* what a read handler leaves in the request when it calls res.json
Answer(r, status, body, ver) ==
  [ r EXCEPT !.pc = "json", !.ran = @ + 1, !.status = status, !.data = body,
             !.ver = ver ]

\* getBlogs: the find and the count, then res.json
GetBlogs(i) ==
  /\ req[i].pc = "handler" /\ req[i].kind = "list"
  /\ req' = [req EXCEPT ![i] =
       Answer(@, 200, getBlogs(blogs, QueryOf(req[i].url)), storeVer)]
  /\ UNCHANGED <<blogs, nextId, storeVer, cache, now, nreq, conc, args, result, redis, expired, acked>>

\* getTrendingBlogs: the findTrending aggregation, then res.json
GetTrendingBlogs(i) ==
  /\ req[i].pc = "handler" /\ req[i].kind = "trending"
  /\ \E order \in TrendingOrders(blogs, TrendingEligible(blogs, now, 7)) :
       req' = [req EXCEPT ![i] =
         Answer(@, 200, getTrendingBlogs(blogs, order, 10), storeVer)]
  /\ UNCHANGED <<blogs, nextId, storeVer, cache, now, nreq, conc, args, result, redis, expired, acked>>

\* getBlogById: findByIdAndUpdate with $inc views, then res.json
GetBlogById(i) ==
  /\ req[i].pc = "handler" /\ req[i].kind = "item"
  /\ LET id == req[i].id IN
     IF id \notin DOMAIN blogs
       THEN /\ req' = [req EXCEPT ![i] = Answer(@, 404, NotFound, storeVer)]
            /\ UNCHANGED blogs
       ELSE LET store == [blogs EXCEPT ![id].views = @ + 1]
                hidden == /\ store[id].status # "published"
                          /\ (req[i].user = NoUser \/ store[id].author # req[i].user)
            IN /\ blogs' = store
               /\ req' = [req EXCEPT ![i] =
                    IF hidden THEN Answer(@, 404, NotFound, storeVer)
                    ELSE Answer(@, 200, [ success |-> TRUE, blog |-> Doc(store, id) ],
                                storeVer)]
  /\ UNCHANGED <<nextId, storeVer, cache, now, nreq, conc, args, result, redis, expired, acked>>

\* the catch block of a read handler: the store query threw
HandlerError(i) ==
  /\ req[i].pc = "handler" /\ req[i].kind \in ReadRoutes
  /\ req' = [req EXCEPT ![i] = Answer(@, 500, ServerError, storeVer)]
  /\ UNCHANGED <<blogs, nextId, storeVer, cache, now, nreq, conc, args, result, redis, expired, acked>>

\* a cacheResponse whose failed SETEX leaves an entry without a payload
cacheResponse_Partial(c, key, data, ttl, src) ==
  SetEx(c, key, [ value |-> IF redis = "ready" THEN Stringify(data) ELSE Null,
                  ttl |-> ttl, exp |-> now + ttl, src |-> src, hits |-> 0 ])

\* cacheResponse: SETEX of the serialized data under the key, with the route's TTL;
\* a SETEX that is rejected or never answered stores nothing and is swallowed
cacheResponse(c, key, data, ttl, src) ==
  IF redis = "ready"
    THEN SetEx(c, key, [ value |-> Stringify(data), ttl |-> ttl, exp |-> now + ttl,
                         src |-> src, hits |-> 0 ])
    ELSE c

\* res.json of a read handler: the override of a miss stores the data, sets the
\* MISS header and sends the data; without the override the data is just sent
ResJson(i) ==
  /\ req[i].pc = "json"
  /\ cache' = IF req[i].override
       THEN cacheResponse(cache, req[i].key, req[i].data, RouteTTL(req[i].kind),
         [ prefix |-> KeyPrefix(req[i].kind), user |-> req[i].user, url |-> req[i].url,
           status |-> req[i].status, body |-> req[i].data, ver |-> req[i].ver,
           method |-> req[i].method ])
       ELSE cache
  /\ req' = [req EXCEPT ![i].pc = "done",
                        ![i].xcache = IF req[i].override THEN "MISS" ELSE "",
                        ![i].failed = req[i].override /\ redis # "ready",
                        ![i].body = req[i].data]
  /\ UNCHANGED <<blogs, nextId, storeVer, now, nreq, conc, args, result, redis, expired, acked>>

\* ------------------------------------------------------------- writes
WriteKinds == {"create", "update", "delete", "like", "comment"}

\* the routes a controller passes to clearRouteCache after its write
ControllerRoutes(kind, id) ==
  CASE kind = "create" -> <<ApiBlogs, ApiTrending>>
    [] kind \in {"update", "delete"} -> <<ApiBlogs, ApiTrending, ApiBlog(id)>>
    [] kind \in {"like", "comment"} -> <<ApiBlog(id), ApiTrending>>

\* the routes the route table gives clearCacheAfterUpdate
MiddlewareRoutes(kind) ==
  CASE kind \in {"create", "update", "delete"} -> <<ApiBlogs, ApiTrending>>
    [] kind \in {"like", "comment"} -> <<ApiTrending>>

\* KEYS pattern
Keys(c, pattern) == { k \in DOMAIN c : GlobMatch(pattern, k) }

\* DEL keys
Del(c, keys) == [k \in DOMAIN c \ keys |-> c[k]]

\* a clearCache whose failure reaches the handler, which answers with an error
ClearFailed_Throws(r, routes, last) ==
  [ r EXCEPT !.pc = "done", !.status = 500, !.body = ServerError, !.failed = TRUE ]

\* clearCache finds no client, or catches the rejection of its KEYS or DEL: the
\* route is given up and the loop of clearRouteCache goes on
ClearFailed(r, routes, last) ==
  [ r EXCEPT !.found = {}, !.ri = @ + 1, !.failed = TRUE,
             !.pc = IF r.ri + 1 > Len(routes) THEN last ELSE @ ]

\* a clearCache that deletes one of the keys KEYS found
clearCache_OneKey(c, pattern) ==
  LET keys == Keys(c, pattern)
  IN IF keys # {} THEN Del(c, {CHOOSE k \in keys : TRUE}) ELSE c

\* clearCache(pattern) with a client that answers: KEYS, then DEL of what it found
clearCache(c, pattern) ==
  LET keys == Keys(c, pattern)
  IN IF keys # {} THEN Del(c, keys) ELSE c

\* one awaited Redis command of clearRouteCache(routes) for request r: the KEYS of
\* route r.ri, or the DEL of the keys that KEYS found; `last` is the pc once the
\* loop has ended. Without a client clearRouteCache returns at once, and clearCache
\* skips its route; a rejected command is caught by clearCache, which ends that
\* route; a command that is never answered leaves an awaited clearRouteCache
\* waiting, and one that was not awaited is not heard of again
ClearStepReq(r, c, routes, last) ==
  LET found == IF r.found # {} THEN {} ELSE Keys(c, RoutePattern(routes[r.ri]))
      next == IF found # {} THEN r.ri ELSE r.ri + 1
  IN IF redis = "hung"
       THEN [ r EXCEPT !.found = {}, !.pc = IF last = "done" THEN "done" ELSE "wait" ]
     ELSE IF redis = "closed" /\ r.ri = 1 /\ r.found = {}
       THEN [ r EXCEPT !.pc = last, !.failed = TRUE ]
     ELSE IF redis # "ready"
       THEN ClearFailed(r, routes, last)
     ELSE [ r EXCEPT !.found = found, !.ri = next,
                     !.pc = IF next > Len(routes) THEN last ELSE @ ]

ClearStepCache(r, c) == IF r.found # {} /\ redis = "ready" THEN Del(c, r.found) ELSE c

\* a write handler's store write succeeded: clearRouteCache comes next
Committed(r, status, message, ver) ==
  [ r EXCEPT !.pc = "clear", !.ri = 1, !.status = status,
             !.data = [ success |-> TRUE, message |-> message ], !.ver = ver ]

\* a write request ends with an error response and without touching the cache
Refused(r, status, body) == [ r EXCEPT !.pc = "done", !.status = status, !.body = body ]

\* a wrapper that clears whatever the status is
clearCacheIfSuccess_Always(status) == TRUE

\* clearCacheIfSuccess of clearCacheAfterUpdate: only a 2xx status clears
clearCacheIfSuccess(status) == status >= 200 /\ status < 300

\* a write handler answers with an error through the res.json that
\* clearCacheAfterUpdate wrapped
Rejected(r, status, body) ==
  IF clearCacheIfSuccess(status)
    THEN [ r EXCEPT !.pc = "after", !.ri = 1, !.status = status, !.body = body ]
    ELSE Refused(r, status, body)

\* createBlog up to its save
CreateBlog(i, caller, status) ==
  /\ Arrives(i)
  /\ nextId < Len(BlogIds)
  /\ blogs' = [id \in DOMAIN blogs \cup {BlogIds[nextId + 1]} |->
                 IF id \in DOMAIN blogs THEN blogs[id] ELSE NewBlog(caller, status, now)]
  /\ nextId' = nextId + 1
  /\ storeVer' = storeVer + 1
  /\ req' = [req EXCEPT ![i] =
       Committed([ IdleReq EXCEPT !.kind = "create", !.user = caller, !.method = "POST",
                     !.id = BlogIds[nextId + 1], !.arg = status ],
                 201, "Blog created successfully", storeVer + 1)]
  /\ nreq' = nreq - 1
  /\ UNCHANGED <<cache, now, conc, args, result, redis, expired, acked>>

\* authenticate and checkOwnership of PUT and DELETE /:id
CheckOwnership(i, kind, caller, id, arg) ==
  /\ Arrives(i)
  /\ kind \in {"update", "delete"}
  /\ LET r == [ IdleReq EXCEPT !.kind = kind, !.user = caller, !.id = id, !.arg = arg,
                  !.method = IF kind = "update" THEN "PUT" ELSE "DELETE" ]
     IN req' = [req EXCEPT ![i] =
          IF id \notin DOMAIN blogs
            THEN Refused(r, 404, [ success |-> FALSE, message |-> "Resource not found." ])
          ELSE IF blogs[id].author # caller /\ RoleOf(caller) # "admin"
            THEN Refused(r, 403, [ success |-> FALSE, message |-> "Access denied." ])
          ELSE [ r EXCEPT !.pc = "commit" ]]
  /\ nreq' = nreq - 1
  /\ UNCHANGED <<blogs, nextId, storeVer, cache, now, conc, args, result, redis, expired, acked>>

\* an updateBlog that goes on to clearRouteCache without awaiting the store
UpdateBlog_ClearFirst(i) ==
  /\ req[i].pc = "commit" /\ req[i].kind = "update"
  /\ req' = [req EXCEPT ![i] =
       Committed(@, 200, "Blog updated successfully", storeVer + 1)]
  /\ UNCHANGED <<blogs, storeVer, nextId, cache, now, nreq, conc, args, result, redis, expired, acked>>

\* updateBlog up to its findByIdAndUpdate, which runs no save hook
UpdateBlog(i) ==
  /\ req[i].pc = "commit" /\ req[i].kind = "update"
  /\ IF req[i].id \notin DOMAIN blogs
       THEN /\ req' = [req EXCEPT ![i] = Rejected(@, 404, NotFound)]
            /\ UNCHANGED <<blogs, storeVer>>
       ELSE /\ blogs' = [blogs EXCEPT ![req[i].id].status = req[i].arg]
            /\ storeVer' = storeVer + 1
            /\ req' = [req EXCEPT ![i] =
                 Committed(@, 200, "Blog updated successfully", storeVer + 1)]
  /\ UNCHANGED <<nextId, cache, now, nreq, conc, args, result, redis, expired, acked>>

\* deleteBlog up to its findByIdAndDelete
DeleteBlog(i) ==
  /\ req[i].pc = "commit" /\ req[i].kind = "delete"
  /\ IF req[i].id \notin DOMAIN blogs
       THEN /\ req' = [req EXCEPT ![i] = Rejected(@, 404, NotFound)]
            /\ UNCHANGED <<blogs, storeVer>>
       ELSE /\ blogs' = [id \in DOMAIN blogs \ {req[i].id} |-> blogs[id]]
            /\ storeVer' = storeVer + 1
            /\ req' = [req EXCEPT ![i] =
                 Committed(@, 200, "Blog deleted successfully", storeVer + 1)]
  /\ UNCHANGED <<nextId, cache, now, nreq, conc, args, result, redis, expired, acked>>

\* authenticate and the findById of toggleLike and addComment
FindBlog(i, kind, caller, id) ==
  /\ Arrives(i)
  /\ kind \in {"like", "comment"}
  /\ LET r == [ IdleReq EXCEPT !.kind = kind, !.user = caller, !.id = id,
                  !.method = "POST" ]
     IN req' = [req EXCEPT ![i] =
          IF id \notin DOMAIN blogs THEN Rejected(r, 404, NotFound)
          ELSE [ r EXCEPT !.pc = "commit", !.likes = blogs[id].likes ]]
  /\ nreq' = nreq - 1
  /\ UNCHANGED <<blogs, nextId, storeVer, cache, now, conc, args, result, redis, expired, acked>>

\* the likes array without the likes of a user
RECURSIVE Without(_, _)
Without(likes, u) ==
  IF likes = <<>> THEN <<>>
  ELSE (IF Head(likes) = u THEN <<>> ELSE <<Head(likes)>>) \o Without(Tail(likes), u)

Has(likes, u) == \E n \in DOMAIN likes : likes[n] = u

\* toggleLike from its findById on: removeLike saves the filtered copy of the
\* array, addLike pushes onto it; a save of a deleted document throws
ToggleLike(i) ==
  /\ req[i].pc = "commit" /\ req[i].kind = "like"
  /\ IF req[i].id \notin DOMAIN blogs
       THEN /\ req' = [req EXCEPT ![i] = Rejected(@, 500, ServerError)]
            /\ UNCHANGED <<blogs, storeVer>>
       ELSE /\ blogs' = [blogs EXCEPT ![req[i].id].likes =
                 IF Has(req[i].likes, req[i].user)
                   THEN Without(req[i].likes, req[i].user)
                   ELSE Append(@, req[i].user)]
            /\ storeVer' = storeVer + 1
            /\ req' = [req EXCEPT ![i] =
                 Committed(@, 200, IF Has(req[i].likes, req[i].user)
                                     THEN "Blog unliked successfully"
                                     ELSE "Blog liked successfully", storeVer + 1)]
  /\ UNCHANGED <<nextId, cache, now, nreq, conc, args, result, redis, expired, acked>>

\* addComment from its findById on
AddComment(i) ==
  /\ req[i].pc = "commit" /\ req[i].kind = "comment"
  /\ IF req[i].id \notin DOMAIN blogs
       THEN /\ req' = [req EXCEPT ![i] = Rejected(@, 500, ServerError)]
            /\ UNCHANGED <<blogs, storeVer>>
       ELSE /\ blogs' = [blogs EXCEPT ![req[i].id].comments = Append(@, req[i].user)]
            /\ storeVer' = storeVer + 1
            /\ req' = [req EXCEPT ![i] =
                 Committed(@, 201, "Comment added successfully", storeVer + 1)]
  /\ UNCHANGED <<nextId, cache, now, nreq, conc, args, result, redis, expired, acked>>

\* the controller's `await clearRouteCache([...])`, one Redis command at a time
ClearRouteCache(i) ==
  /\ req[i].pc = "clear"
  /\ cache' = ClearStepCache(req[i], cache)
  /\ req' = [req EXCEPT ![i] =
       ClearStepReq(@, cache, ControllerRoutes(req[i].kind, req[i].id), "respond")]
  /\ UNCHANGED <<blogs, nextId, storeVer, now, nreq, conc, args, result, redis, expired, acked>>

\* a string begins with a prefix
StartsWith(s, prefix) ==
  Len(s) >= Len(prefix) /\ SubSeq(s, 1, Len(prefix)) = prefix

\* res.json of a write handler under clearCacheAfterUpdate: on a 2xx status the
\* wrapper calls clearRouteCache without awaiting it, which issues its first KEYS,
\* and the response is sent
WriteResponse(i) ==
  /\ req[i].pc = "respond"
  /\ LET r == [ req[i] EXCEPT !.body = req[i].data,
                  !.left = { k \in DOMAIN cache : cache[k].src.ver < req[i].ver } ]
         routes == ControllerRoutes(req[i].kind, req[i].id)
     IN /\ req' = [req EXCEPT ![i] =
             IF clearCacheIfSuccess(r.status)
               THEN ClearStepReq([ r EXCEPT !.pc = "after", !.ri = 1 ], cache,
                                 MiddlewareRoutes(r.kind), "done")
               ELSE [ r EXCEPT !.pc = "done" ]]
        /\ acked' = [u \in ReadUrls |->
             IF (\E n \in DOMAIN routes : StartsWith(u, routes[n])) /\ acked[u] < r.ver
               THEN r.ver ELSE acked[u]]
  /\ UNCHANGED <<blogs, nextId, storeVer, cache, now, nreq, conc, args, result, redis, expired>>

\* the rest of the clearRouteCache that clearCacheAfterUpdate started
ClearCacheAfterUpdate(i) ==
  /\ req[i].pc = "after"
  /\ cache' = ClearStepCache(req[i], cache)
  /\ req' = [req EXCEPT ![i] =
       ClearStepReq(@, cache, MiddlewareRoutes(req[i].kind), "done")]
  /\ UNCHANGED <<blogs, nextId, storeVer, now, nreq, conc, args, result, redis, expired, acked>>

\* time passes; Redis drops the entries whose TTL has run out
Tick ==
  /\ now < MaxTicks * CacheTTL
  /\ now' = now + CacheTTL
  /\ cache' = Unexpired(cache, now + CacheTTL)
  /\ expired' = expired \cup (DOMAIN cache \ DOMAIN Unexpired(cache, now + CacheTTL))
  /\ UNCHANGED <<blogs, nextId, storeVer, req, nreq, conc, args, result, redis, acked>>

\* the Redis client changes: the connection drops or recovers, the server stops
\* answering, closeRedis resets the client
RedisTurns(mode) ==
  /\ mode # redis
  /\ redis' = mode
  /\ UNCHANGED <<blogs, nextId, storeVer, cache, now, req, nreq, conc, args, result, acked, expired>>

\* a request arrives and runs up to its first await
Accept ==
  \/ \E i \in Slots, route \in ReadRoutes, caller \in Callers :
       \E url \in UrlsOf(route) : CacheMiddleware(i, route, url, caller)
  \/ \E i \in Slots, caller \in {"u2"}, status \in {"draft", "published"} :
       CreateBlog(i, caller, status)
  \/ \E i \in Slots, kind \in {"update", "delete"}, caller \in Users,
        arg \in {"draft", "published"} :
       CheckOwnership(i, kind, caller, BlogIds[1], IF kind = "update" THEN arg ELSE "")
  \/ \E i \in Slots, kind \in {"like", "comment"}, caller \in Users :
       FindBlog(i, kind, caller, BlogIds[1])

\* a request in flight takes its next step when the event loop resumes it
Proceed ==
  \/ \E i \in Slots : GetBlogs(i)
  \/ \E i \in Slots : GetTrendingBlogs(i)
  \/ \E i \in Slots : GetBlogById(i)
  \/ \E i \in Slots : HandlerError(i)
  \/ \E i \in Slots : ResJson(i)
  \/ \E i \in Slots : UpdateBlog(i)
  \/ \E i \in Slots : DeleteBlog(i)
  \/ \E i \in Slots : ToggleLike(i)
  \/ \E i \in Slots : AddComment(i)
  \/ \E i \in Slots : ClearRouteCache(i)
  \/ \E i \in Slots : WriteResponse(i)
  \/ \E i \in Slots : ClearCacheAfterUpdate(i)

\* the steps of the requests
Serve == Accept \/ Proceed

\* ------------------------------------------------- functions on their own
\* keys as the cache middlewares write them, and keys under the default prefix of
\* cache()
SampleKeys ==
  { generateCacheKey(NoUser, ApiBlogs, KeyPrefix("list")),
    generateCacheKey(NoUser, ApiTrending, KeyPrefix("trending")),
    generateCacheKey(NoUser, ApiBlog(BlogIds[1]), KeyPrefix("item")),
    generateCacheKey("u1", ApiBlog(BlogIds[1]), KeyPrefix("item")),
    generateCacheKey(NoUser, ApiBlogs, "cache"),
    generateCacheKey(NoUser, ApiTrending, "cache") }

SampleEntry(k) ==
  [ value |-> Stringify([ success |-> TRUE, message |-> k[1] ]), ttl |-> CacheTTL,
    exp |-> CacheTTL, src |-> NoSource, hits |-> 0 ]

\* the patterns clearCache is called with: its default, the patterns of
\* clearRouteCache, and patterns of the same shape under the prefixes in use
SamplePatterns ==
  {<<"*">>} \cup
  { <<prefix, ":", "*", ":", "*", ":">> \o route \o <<"*">> :
      prefix \in {"cache", KeyPrefix("list"), KeyPrefix("item")},
      route \in {ApiBlogs, ApiTrending, ApiBlog(BlogIds[1])} }

ClearCacheCalls ==
  { [ fn |-> "clearCache", cache |-> [k \in keys |-> SampleEntry(k)], pattern |-> p ] :
      keys \in SUBSET SampleKeys, p \in SamplePatterns }

\* a call of clearCache(pattern)
ClearCacheCall ==
  /\ args.fn = "clearCache" /\ result = NoCall
  /\ result' = [ fn |-> "clearCache", cache |-> clearCache(args.cache, args.pattern) ]
  /\ UNCHANGED <<blogs, nextId, storeVer, cache, now, req, nreq, conc, acked, redis,
                 expired, args>>

\* documents to rank: a draft or a published blog, never published, published
\* 8 days, 7 days or 1 day before the call
SampleDocs ==
  [ author : {"u1"}, status : {"draft", "published"}, views : {0, 5},
    likes : {<<>>, <<"u2">>}, comments : {<<>>, <<"u2">>},
    publishedAt : {NoDate, 2 * DaySeconds, 3 * DaySeconds, 9 * DaySeconds} ]

\* collections of three blogs, the third one published a day ago with 5 or 10 views
SampleStores ==
  { [id \in {"b1", "b2", "b3"} |->
       IF id = "b1" THEN d1 ELSE IF id = "b2" THEN d2
       ELSE [ author |-> "u1", status |-> "published", views |-> v, likes |-> <<>>,
              comments |-> <<>>, publishedAt |-> 9 * DaySeconds ]] :
      d1 \in SampleDocs, d2 \in SampleDocs, v \in {5, 10} }

FindTrendingCalls ==
  { [ fn |-> "findTrending", store |-> st, now |-> 10 * DaySeconds, limit |-> l,
      timeframe |-> 7 ] : st \in SampleStores, l \in 1..MaxLimit }

\* a call of Blog.findTrending(limit, timeframe)
FindTrendingCall ==
  /\ args.fn = "findTrending" /\ result = NoCall
  /\ \E order \in TrendingOrders(args.store,
                   TrendingEligible(args.store, args.now, args.timeframe)) :
       result' = [ fn |-> "findTrending",
                   blogs |-> getTrendingBlogs(args.store, order, args.limit).blogs ]
  /\ UNCHANGED <<blogs, nextId, storeVer, cache, now, req, nreq, conc, acked, redis,
                 expired, args>>

\* a document and the counter that grows by one
TrendingScoreCalls ==
  { [ fn |-> "trendingScore", doc |-> d, counter |-> c ] :
      d \in SampleDocs, c \in {"views", "likes", "comments"} }

\* the document of a call after its counter has grown
Grown(d, counter) ==
  CASE counter = "views" -> [d EXCEPT !.views = @ + 1]
    [] counter = "likes" -> [d EXCEPT !.likes = Append(@, "u1")]
    [] counter = "comments" -> [d EXCEPT !.comments = Append(@, "u1")]

\* the score of a document by the virtual and by the pipeline, before and after one
\* of its counters grows
TrendingScoreCall ==
  /\ args.fn = "trendingScore" /\ result = NoCall
  /\ result' = [ fn |-> "trendingScore",
                 virtual |-> trendingScore(args.doc),
                 pipeline |-> TrendingScore(args.doc),
                 virtualGrown |-> trendingScore(Grown(args.doc, args.counter)),
                 pipelineGrown |-> TrendingScore(Grown(args.doc, args.counter)) ]
  /\ UNCHANGED <<blogs, nextId, storeVer, cache, now, req, nreq, conc, acked, redis,
                 expired, args>>

\* page and limit parameters as the query string carries them, and total counts
PaginationCalls ==
  { [ fn |-> "pagination", page |-> p, limit |-> l, total |-> t ] :
      p \in {<<"-", "1">>, <<"0">>, <<"1">>, <<"2">>, <<"3">>, <<"1", "0">>},
      l \in {<<"1">>, <<"2">>, <<"1", "0">>, <<"1", "2">>, <<"1", "0", "0", "0">>},
      t \in 0..MaxTotal }

\* the pagination part of a call of getBlogs or getUserBlogs
PaginationCall ==
  /\ args.fn = "pagination" /\ result = NoCall
  /\ result' = [ fn |-> "pagination",
                 is |-> Pagination(args.page, args.limit, args.total) ]
  /\ UNCHANGED <<blogs, nextId, storeVer, cache, now, req, nreq, conc, acked, redis,
                 expired, args>>

\* the characters the search pattern escapes
Metachars == {".", "*", "+", "?", "^", "$", "{", "}", "(", ")", "|", "[", "]", "\\"}

RECURSIVE Trim(_)
\* String.prototype.trim on a sequence of characters
Trim(s) ==
  IF s = <<>> THEN s
  ELSE IF s[1] = " " THEN Trim(Tail(s))
  ELSE IF s[Len(s)] = " " THEN Trim(SubSeq(s, 1, Len(s) - 1))
  ELSE s

\* an escaping that leaves the string as it is
Escape_None(s) == s

RECURSIVE Escape(_)
\* replace(/[.*+?^${}()|[\]\\]/g, '\\$&'): a backslash before every metacharacter
Escape(s) ==
  IF s = <<>> THEN <<>>
  ELSE (IF s[1] \in Metachars THEN <<"\\", s[1]>> ELSE <<s[1]>>) \o Escape(Tail(s))

RECURSIVE Tokens(_)
\* the pattern as the regular-expression parser reads it: an escaped character is
\* a literal, a dot is any character, a plus repeats what is before it
Tokens(p) ==
  IF p = <<>> THEN <<>>
  ELSE IF p[1] = "\\"
    THEN IF Len(p) = 1 THEN <<[t |-> "bad", ch |-> "\\"]>>
         ELSE <<[t |-> "lit", ch |-> p[2]]>> \o Tokens(SubSeq(p, 3, Len(p)))
  ELSE IF p[1] = "." THEN <<[t |-> "any", ch |-> "."]>> \o Tokens(Tail(p))
  ELSE IF p[1] = "+" THEN <<[t |-> "quant", ch |-> "+"]>> \o Tokens(Tail(p))
  ELSE <<[t |-> "lit", ch |-> p[1]]>> \o Tokens(Tail(p))

\* new RegExp throws on a trailing backslash and on a quantifier with nothing to repeat
Compiles(toks) ==
  \A n \in DOMAIN toks :
    /\ toks[n].t # "bad"
    /\ toks[n].t = "quant" => n > 1 /\ toks[n - 1].t # "quant"

\* the case folding of the 'i' flag
Lower(c) == IF c = "C" THEN "c" ELSE c

RECURSIVE MatchesFrom(_, _, _, _)
\* the tokens from the k-th on match the text from position i on
MatchesFrom(toks, k, text, i) ==
  IF k > Len(toks) THEN TRUE
  ELSE LET plus == k < Len(toks) /\ toks[k + 1].t = "quant"
           fits(j) == j <= Len(text)
                        /\ (toks[k].t = "any" \/ Lower(toks[k].ch) = Lower(text[j]))
       IN IF plus
            THEN \E n \in 1..(Len(text) - i + 1) :
                   /\ \A j \in i..(i + n - 1) : fits(j)
                   /\ MatchesFrom(toks, k + 2, text, i + n)
            ELSE fits(i) /\ MatchesFrom(toks, k + 1, text, i + 1)

\* the regular expression getBlogs builds from the search parameter, applied to a
\* text field: whether building it threw, and whether it matched somewhere
searchRegex(search, text) ==
  LET toks == Tokens(Escape(Trim(search)))
  IN IF ~Compiles(toks) THEN [threw |-> TRUE, matched |-> FALSE]
     ELSE [threw |-> FALSE,
           matched |-> \E i \in 1..(Len(text) + 1) : MatchesFrom(toks, 1, text, i)]

\* the sequences over an alphabet of at most n characters
Strings(alphabet, n) == UNION { [1..k -> alphabet] : k \in 0..n }

\* search parameters (the handler builds no pattern for the empty one) and texts
SearchCalls ==
  { [ fn |-> "search", search |-> s, text |-> t ] :
      s \in Strings({"c", "+", ".", " "}, MaxSearchLen) \ {<<>>},
      t \in Strings({"c", "C", "+", "x"}, MaxTextLen) }

\* the search part of a call of getBlogs, against one text field
SearchCall ==
  /\ args.fn = "search" /\ result = NoCall
  /\ result' = [ fn |-> "search", is |-> searchRegex(args.search, args.text) ]
  /\ UNCHANGED <<blogs, nextId, storeVer, cache, now, req, nreq, conc, acked, redis,
                 expired, args>>

Calls == ClearCacheCalls \cup FindTrendingCalls \cup TrendingScoreCalls
           \cup PaginationCalls \cup SearchCalls

InitFunctions == Started /\ nreq = 0 /\ conc = 1 /\ args \in Calls /\ result = NoCall

NextFunctions ==
  \/ ClearCacheCall \/ FindTrendingCall \/ TrendingScoreCall \/ PaginationCall
  \/ SearchCall

SpecFunctions == InitFunctions /\ [][NextFunctions]_vars

Next == Serve \/ Tick

\* the server with a Redis client that can fail
NextFaulty == Serve \/ \E mode \in RedisModes : RedisTurns(mode)

\* a PUT for the blog that a createBlog added
UpdateCreated ==
  \E i \in Slots, caller \in Users, arg \in {"draft", "published"} :
    CheckOwnership(i, "update", caller, BlogIds[2], arg)

\* the server from its start: connectRedis, then the requests
NextStartup == connectRedis \/ Serve \/ HeadRequest \/ UpdateCreated

Spec == Init /\ [][Next]_vars

SpecStartup == InitStartup /\ [][NextStartup]_vars

SpecConc == InitConc /\ [][Serve]_vars

\* the event loop resumes every request whose awaited call has returned
SpecFaulty == InitFaulty /\ [][NextFaulty]_vars /\ WF_vars(Proceed)

\* -------------------------------------------------------------- claims
\* the URL a cache key ends with, and the key all anonymous callers of a URL get
KeyUrl(key) == SubSeq(key, 7, Len(key))
AnonymousKey(prefix, url) == <<prefix, ":", "guest", ":", "anonymous", ":">> \o url

Reads == { i \in Slots : req[i].kind \in ReadRoutes }
Hits == { i \in Reads : req[i].xcache = "HIT" }
Misses == { i \in Reads : req[i].xcache = "MISS" }

\* the writes that succeeded and whose response has been sent
Written == { i \in Slots : /\ req[i].kind \in WriteKinds
                           /\ req[i].pc \in {"after", "done"}
                           /\ req[i].status \in {200, 201} }

\* a key whose URL begins with one of the routes
Covered(key, routes) == \E n \in DOMAIN routes : StartsWith(KeyUrl(key), routes[n])

\* C1: when the response of a successful write is sent, no entry that was computed
\* before the write and whose URL begins with a route the write passed to
\* clearRouteCache is left in the cache.
C1_WritePurgesCoveredKeys ==
  \A i \in Written :
    \A k \in req[i].left : ~Covered(k, ControllerRoutes(req[i].kind, req[i].id))

\* C2: a read that arrives after the response of a write covering its URL is never
\* answered from the cache with a payload computed before that write.
C2_NoStaleHitAfterWrite ==
  \A i \in Hits : req[i].from.ver >= req[i].floor

\* C3: a hit serves a payload only to a request with the key prefix, the requester
\* (role and id) and the URL of the request that stored it.
C3_HitOnlyForSameRequester ==
  \A i \in Hits :
    /\ req[i].from.prefix = KeyPrefix(req[i].kind)
    /\ req[i].from.user = req[i].user
    /\ req[i].from.url = req[i].url

\* a user is answered from the cache while the cache also holds the same URL for
\* another user
C3_Witness ==
  \E i \in Hits : \E k \in DOMAIN cache :
    /\ req[i].user \in Users
    /\ cache[k].src.user \in Users \ {req[i].user}
    /\ cache[k].src.url = req[i].url

\* C4: a request with the prefix, URL and requester of a stored entry has that
\* entry's key; one that differs from it only in the requester's id, both being
\* authenticated, has another key.
C4_KeyDeterministicAndPerUser ==
  \A i \in Reads : \A k \in DOMAIN cache :
    (cache[k].src.prefix = KeyPrefix(req[i].kind) /\ cache[k].src.url = req[i].url)
      => /\ cache[k].src.user = req[i].user => k = req[i].key
         /\ ( /\ cache[k].src.user \in Users /\ req[i].user \in Users
              /\ cache[k].src.user # req[i].user
              /\ RoleOf(cache[k].src.user) = RoleOf(req[i].user) ) => k # req[i].key

\* a request meets an entry of its own and an entry of another user for its URL
C4_Witness ==
  \E i \in Reads : \E k1, k2 \in DOMAIN cache :
    /\ req[i].user \in Users
    /\ cache[k1].src.url = req[i].url /\ cache[k1].src.user = req[i].user
    /\ cache[k2].src.url = req[i].url /\ cache[k2].src.user \in Users \ {req[i].user}
    /\ k1 = req[i].key /\ k2 # req[i].key

\* the same route, requester and set of query parameters
SameParameters(i, src) ==
  /\ src.prefix = KeyPrefix(req[i].kind)
  /\ src.user = req[i].user
  /\ PathOf(src.url) = PathOf(req[i].url)
  /\ QueryOf(src.url) = QueryOf(req[i].url)

C6_AnonymousSharesOneKey ==
  \A i \in Reads :
    /\ req[i].user = NoUser
         => /\ req[i].key = AnonymousKey(KeyPrefix(req[i].kind), req[i].url)
            /\ \A k \in DOMAIN cache :
                 ( /\ cache[k].src.user = NoUser
                   /\ cache[k].src.prefix = KeyPrefix(req[i].kind)
                   /\ cache[k].src.url = req[i].url ) => k = req[i].key
    /\ (req[i].caller \in Users /\ ResolvesUser(req[i].kind))
         => req[i].key # AnonymousKey(KeyPrefix(req[i].kind), req[i].url)

\* an anonymous caller is answered from the entry of another anonymous caller while
\* the cache also holds that URL for a user
C6_Witness ==
  \E i \in Hits : \E k \in DOMAIN cache :
    /\ req[i].caller = NoUser /\ ResolvesUser(req[i].kind)
    /\ req[i].from.user = NoUser
    /\ cache[k].src.user \in Users /\ cache[k].src.url = req[i].url

\* C7: a read that finds its key in the cache does not run the handler and returns
\* the payload of the read that stored the entry, which ran the handler once: of
\* three successive reads of a key only the first runs the handler, and the three
\* payloads are equal.
C7_OneHandlerRunThenHits ==
  \A i \in Reads :
    /\ req[i].cached
         => /\ req[i].pc = "done" /\ req[i].xcache = "HIT" /\ req[i].ran = 0
            /\ req[i].body = req[i].from.body
    /\ req[i].xcache = "MISS" => (req[i].ran = 1 /\ ~req[i].cached)

\* the third of three reads of a key: the entry has served two hits
C7_Witness ==
  \E i \in Hits :
    /\ req[i].key \in DOMAIN cache
    /\ cache[req[i].key].hits = 2
    /\ cache[req[i].key].src.body = req[i].body
    /\ req[i].ran = 0

\* C8: the payload of a read is the whole data one handler run for its key passed to
\* res.json: its own on a miss, that of the read that stored the entry on a hit; and
\* every cached value is the whole data of the read that stored it.
C8_PayloadIsOneHandlerResult ==
  /\ \A i \in Misses : req[i].body = req[i].data /\ req[i].ran = 1
  /\ \A i \in Hits :
       /\ req[i].body = req[i].from.body
       /\ generateCacheKey(req[i].from.user, req[i].from.url, req[i].from.prefix)
            = req[i].key
  /\ \A k \in DOMAIN cache : Parse(cache[k].value) = cache[k].src.body

\* two reads missed on one key together and computed different data; the entry is
\* the data of one of them
C8_Witness ==
  \E i, j \in Misses :
    /\ i # j /\ req[i].key = req[j].key /\ req[i].body # req[j].body
    /\ req[i].key \in DOMAIN cache
    /\ Parse(cache[req[i].key].value) = req[j].body

\* C9: no entry holds the payload of a handler response that reported a failure.
C9_NoErrorPayloadCached ==
  \A k \in DOMAIN cache : cache[k].src.status = 200

\* the keys whose payload can include blog id: the lists, the trending lists, its item
Shows(key, id) ==
  \/ key[1] \in {KeyPrefix("list"), KeyPrefix("trending")}
  \/ key[1] = KeyPrefix("item") /\ KeyUrl(key) = ApiBlog(id)

\* C10: when the response of a successful update, delete, like or comment of a blog
\* is sent, no entry computed before the write is left under an item key of the
\* blog, a list key or a trending key.
C10_BlogWritePurgesAllViews ==
  \A i \in Written :
    req[i].kind \in {"update", "delete", "like", "comment"}
      => \A k \in req[i].left : ~Shows(k, req[i].id)

\* no request is in flight
Quiet == \A i \in Slots : req[i].pc \in {"idle", "done"}

\* the documents a payload shows
DocsOf(body) ==
  IF "blog" \in DOMAIN body THEN { [ id |-> body.blog.id, doc |-> body.blog.doc ] }
  ELSE IF "blogs" \in DOMAIN body
    THEN { [ id |-> body.blogs[n].id, doc |-> body.blogs[n].doc ] : n \in DOMAIN body.blogs }
  ELSE {}

\* C11: once every request has ended, no cached payload shows a view count of a
\* stored blog other than the count the store holds: each view-counter increment of
\* getBlogById has purged the item, list and trending entries that show the blog.
C11_ViewIncrementPurgesViews ==
  Quiet =>
    \A k \in DOMAIN cache : \A d \in DocsOf(Parse(cache[k].value)) :
      d.id \in DOMAIN blogs => d.doc.views = blogs[d.id].views

\* the blog-list entries of the cache: key -> stored value
ListEntries(c) ==
  [k \in { x \in DOMAIN c : x[1] = KeyPrefix("list") } |-> c[k].value]

\* C12: no step of a like toggle or of a comment add, from its store write to the
\* end of its invalidation, adds, removes or changes a blog-list entry.
C12_LikeCommentKeepListEntries ==
  [][\A i \in Slots :
       (/\ req[i].kind \in {"like", "comment"}
        /\ req[i].pc \notin {"idle", "done"}
        /\ req'[i] # req[i]) => ListEntries(cache') = ListEntries(cache)]_vars

\* a like or a comment has been answered with success while a list entry is cached
C12_Witness ==
  \E i \in Slots :
    /\ req[i].kind \in {"like", "comment"} /\ req[i].pc = "done"
    /\ req[i].status \in {200, 201}
    /\ DOMAIN ListEntries(cache) # {}

\* the write requests that have issued a cache command or sent a success response
Purging ==
  { i \in Slots : /\ req[i].kind \in WriteKinds
                  /\ \/ req[i].pc \in {"clear", "respond", "after", "wait"}
                     \/ req[i].pc = "done" /\ req[i].status \in {200, 201} }

\* C13: a write request issues cache commands and sends its success response only
\* after the store has applied its write: such a request holds the version the
\* store gave its write, and the store has reached that version.
C13_PurgeAndResponseAfterStoreAck ==
  \A i \in Purging : req[i].ver >= 1 /\ req[i].ver <= storeVer

\* an update or a delete has been answered after its store write and its purge
C13_Witness ==
  \E i \in Purging :
    /\ req[i].kind \in {"update", "delete"} /\ req[i].pc = "done"
    /\ req[i].ver = storeVer

\* C14: no write request has sent its response while a KEYS or DEL of its
\* invalidation is still to be issued or answered.
C14_InvalidationEndsBeforeResponse ==
  \A i \in Slots : req[i].kind \in WriteKinds => req[i].pc # "after"

\* the reads whose cache middleware found no client or had its GET rejected
Bypassed ==
  { i \in Slots : /\ req[i].kind \in ReadRoutes
                  /\ req[i].pc \in {"handler", "json", "done"}
                  /\ ~req[i].override /\ req[i].xcache # "HIT" }

\* C15: a read whose cache middleware found Redis unavailable, or whose GET failed,
\* runs the handler exactly once and is answered with the handler's status and
\* body, not marked as a cache result.
C15_ReadSurvivesCacheFailure ==
  \A i \in Bypassed :
    /\ req[i].ran = (IF req[i].pc = "handler" THEN 0 ELSE 1)
    /\ req[i].pc = "done" => req[i].body = req[i].data /\ req[i].xcache = ""

\* a read has been answered by its handler past a cache that was unavailable
C15_Witness ==
  \E i \in Bypassed :
    req[i].pc = "done" /\ req[i].status = 200 /\ req[i].body.success

\* C16: a write whose invalidation found Redis unavailable, or had a KEYS or DEL
\* rejected, has been applied to the store and keeps its success status and body,
\* which is the response the caller receives.
C16_WriteSurvivesPurgeFailure ==
  \A i \in Slots :
    req[i].kind \in WriteKinds /\ req[i].failed =>
      /\ req[i].ver >= 1 /\ req[i].ver <= storeVer
      /\ req[i].status \in {200, 201} /\ req[i].data.success
      /\ req[i].pc = "done" => req[i].body = req[i].data

\* a write has been answered with success although its invalidation failed
C16_Witness ==
  \E i \in Slots :
    /\ req[i].kind \in WriteKinds /\ req[i].failed
    /\ req[i].pc = "done" /\ req[i].body.success

\* C17: the res.json of a miss whose SETEX fails sends the handler's body with the
\* handler's status and leaves the cache exactly as it was.
C17_FailedStoreLeavesReadAndCache ==
  [][\A i \in Slots :
       (/\ req[i].pc = "json" /\ req[i].override /\ redis # "ready"
        /\ req'[i].pc = "done")
         => /\ cache' = cache
            /\ req'[i].body = req[i].data /\ req'[i].status = req[i].status]_vars

\* a miss has been answered with its handler's payload, its SETEX failed and the
\* cache holds no entry under its key
C17_Witness ==
  \E i \in Slots :
    /\ req[i].kind \in ReadRoutes /\ req[i].pc = "done" /\ req[i].failed
    /\ req[i].xcache = "MISS" /\ req[i].status = 200
    /\ req[i].key \notin DOMAIN cache

\* C18: every request that has arrived is eventually answered, whatever Redis does:
\* a request that has not sent its response yet sends it later.
C18_EveryRequestAnswered ==
  \A i \in Slots :
    (req[i].pc \notin {"idle", "done", "after"}) ~> (req[i].pc \in {"done", "after"})

\* C19: an entry stored at time s with TTL t expires at s + t, the cache never
\* holds an entry whose time has run out, and every hit is served from an entry
\* whose time has not run out; so a read of the key after expiry is a miss that
\* stores an entry with the full TTL.
C19_ExpiredEntryNeverServed ==
  [][/\ \A k \in DOMAIN cache' : cache'[k].exp > now'
     /\ \A i \in Slots :
          (req'[i] # req[i] /\ req'[i].xcache = "HIT")
            => req'[i].key \in DOMAIN cache /\ cache[req'[i].key].exp > now
     /\ \A i \in Slots :
          (req[i].pc = "json" /\ req[i].override /\ req'[i].pc = "done")
            => /\ req[i].key \in DOMAIN cache'
               /\ cache'[req[i].key].exp = now + RouteTTL(req[i].kind)]_vars

\* a read of a key whose entry had expired was a miss that ran the handler and
\* stored an entry with the full TTL
C19_Witness ==
  \E i \in Slots :
    /\ req[i].pc = "done" /\ req[i].xcache = "MISS" /\ req[i].ran = 1
    /\ req[i].key \in expired /\ req[i].key \in DOMAIN cache
    /\ cache[req[i].key].exp = now + RouteTTL(req[i].kind)
    /\ now >= CacheTTL

\* C20: every request that misses runs its handler exactly once, whoever else
\* misses on the key at the same time, and each store of a miss replaces the entry
\* of its key by the whole payload of that request and touches no other entry; so
\* the entry left by several misses is the payload of the last one to store.
C20_EachMissRunsAndLastStoreWins ==
  [][/\ \A i \in Slots : req'[i].xcache = "MISS" => req'[i].ran = 1
     /\ \A i \in Slots :
          (req[i].pc = "json" /\ req[i].override /\ req'[i].pc = "done")
            => /\ req[i].key \in DOMAIN cache'
               /\ cache'[req[i].key].value = Stringify(req[i].data)
               /\ \A k \in DOMAIN cache' \ {req[i].key} :
                    k \in DOMAIN cache /\ cache'[k] = cache[k]]_vars

\* two requests missed on one key together, each ran its handler, their payloads
\* differ and the entry holds the payload of one of them
C20_Witness ==
  \E i, j \in Slots :
    /\ i # j /\ req[i].key = req[j].key
    /\ req[i].pc = "done" /\ req[j].pc = "done"
    /\ req[i].xcache = "MISS" /\ req[j].xcache = "MISS"
    /\ req[i].ran = 1 /\ req[j].ran = 1
    /\ req[i].body # req[j].body
    /\ req[i].key \in DOMAIN cache
    /\ cache[req[i].key].value = Stringify(req[j].body)

\* C21: while no write request is in the system, two requests that missed on the
\* same key and whose handlers succeeded were answered with equal payloads, on
\* every cached read route.
C21_SameKeySamePayload ==
  (\A w \in Slots : req[w].kind \notin WriteKinds) =>
    \A i, j \in Misses :
      req[i].key = req[j].key /\ req[i].status = 200 /\ req[j].status = 200
        => req[i].body = req[j].body

\* C22: a read request is either answered from the cache without its handler being
\* invoked, or its handler is invoked once and never again, whether the cache calls
\* succeed or fail.
C22_AnsweredFromCacheOrHandlerOnce ==
  \A i \in Slots : req[i].kind \in ReadRoutes =>
    /\ req[i].ran <= 1
    /\ req[i].xcache = "HIT" => req[i].ran = 0 /\ req[i].pc = "done"
    /\ req[i].pc \in {"json", "done"} /\ req[i].xcache # "HIT" => req[i].ran = 1
    /\ req[i].pc \in {"handler", "wait"} => req[i].ran = 0

\* a read whose cache lookup failed was answered by one run of its handler although
\* the cache holds an entry under its key
C22_Witness ==
  \E i \in Bypassed :
    /\ req[i].pc = "done" /\ req[i].ran = 1 /\ req[i].xcache = ""
    /\ req[i].key \in DOMAIN cache

\* a key matches a pattern of the shape prefix:*:*:route* when it has that prefix
\* and its URL begins with the route; every key matches "*"
Matches(pattern, key) ==
  \/ pattern = <<"*">>
  \/ /\ Len(pattern) > 7 /\ key[1] = pattern[1]
     /\ StartsWith(KeyUrl(key), SubSeq(pattern, 7, Len(pattern) - 1))

\* C23: after clearCache(pattern) the cache holds exactly the entries whose key does
\* not match the pattern, unchanged; when no key matches, the cache is as before.
C23_ClearCacheRemovesExactlyMatches ==
  result # NoCall /\ result.fn = "clearCache" =>
    /\ DOMAIN result.cache = { k \in DOMAIN args.cache : ~Matches(args.pattern, k) }
    /\ \A k \in DOMAIN result.cache : result.cache[k] = args.cache[k]
    /\ (\A k \in DOMAIN args.cache : ~Matches(args.pattern, k))
         => result.cache = args.cache

\* clearCache removed two keys and kept two others
C23_Witness ==
  /\ result # NoCall /\ result.fn = "clearCache"
  /\ Cardinality(DOMAIN args.cache \ DOMAIN result.cache) = 2
  /\ Cardinality(DOMAIN result.cache) = 2

\* the blogs of a collection that are published and were published within the
\* timeframe days before t
InWindow(store, t, timeframe) ==
  { id \in DOMAIN store :
      /\ store[id].status = "published"
      /\ store[id].publishedAt # NoDate
      /\ t - store[id].publishedAt <= timeframe * DaySeconds }

Found == result # NoCall /\ result.fn = "findTrending"

\* C24: every blog findTrending returns is published and was published within the
\* last timeframe days.
C24_TrendingOnlyPublishedInWindow ==
  Found => \A n \in DOMAIN result.blogs :
             result.blogs[n].id \in InWindow(args.store, args.now, args.timeframe)

\* findTrending left out a blog that is a draft, has no publishedAt or was published
\* before the window, although its score is higher than the score of the first
\* blog it returned
C24_Witness ==
  /\ Found /\ result.blogs # <<>>
  /\ \E id \in DOMAIN args.store :
       /\ id \notin InWindow(args.store, args.now, args.timeframe)
       /\ TrendingScore(args.store[id]) > result.blogs[1].trendingScore

Scored == result # NoCall /\ result.fn = "trendingScore"

\* views * 1 + likes * 5 + comments * 10
Weighted(d) == d.views + 5 * Len(d.likes) + 10 * Len(d.comments)

C26_TrendingSortedAndTruncated ==
  Found =>
    LET eligible == InWindow(args.store, args.now, args.timeframe)
        returned == { result.blogs[n].id : n \in DOMAIN result.blogs }
    IN /\ Len(result.blogs) = Min(args.limit, Cardinality(eligible))
       /\ Cardinality(returned) = Len(result.blogs)
       /\ \A a, b \in DOMAIN result.blogs :
            a < b => result.blogs[a].trendingScore >= result.blogs[b].trendingScore
       /\ \A n \in DOMAIN result.blogs : \A id \in eligible \ returned :
            result.blogs[n].trendingScore >= Weighted(args.store[id])

\* three blogs were eligible, the limit was 2, and the blog left out has a lower
\* score than both blogs returned
C26_Witness ==
  /\ Found /\ args.limit = 2 /\ Len(result.blogs) = 2
  /\ Cardinality(InWindow(args.store, args.now, args.timeframe)) = 3
  /\ result.blogs[1].trendingScore > result.blogs[2].trendingScore
  /\ \E id \in DOMAIN args.store :
       Weighted(args.store[id]) < result.blogs[2].trendingScore

\* C27: of two blogs with equal scores, findTrending returns the one published
\* more recently first.
C27_TiesNewestFirst ==
  Found =>
    \A a, b \in DOMAIN result.blogs :
      a < b /\ result.blogs[a].trendingScore = result.blogs[b].trendingScore
        => result.blogs[a].doc.publishedAt >= result.blogs[b].doc.publishedAt

Paged == result # NoCall /\ result.fn = "pagination"

\* the page, the page size and the total of a pagination call, as numbers
PageOf(a) == IF a.page[1] = "-" THEN 0 - Decimal(Tail(a.page)) ELSE Decimal(a.page)
SizeOf(a) == Decimal(a.limit)

\* C29: for a page >= 1 and a page size >= 1, totalPages is the least number of
\* pages of that size that hold the total, hasNextPage tells whether the page is
\* before the last one and hasPrevPage whether it is after the first; 25 blogs in
\* pages of 10 seen from page 3 give 3 pages, no next page and a previous page.
C29_PaginationArithmetic ==
  Paged /\ PageOf(args) >= 1 /\ SizeOf(args) >= 1 =>
    /\ result.is.totalPages * SizeOf(args) >= args.total
    /\ (result.is.totalPages - 1) * SizeOf(args) < args.total \/ result.is.totalPages = 0
    /\ result.is.totalPages >= 0
    /\ result.is.currentPage = PageOf(args)
    /\ result.is.hasNextPage = (PageOf(args) < result.is.totalPages)
    /\ result.is.hasPrevPage = (PageOf(args) > 1)
    /\ (args.total = 25 /\ SizeOf(args) = 10 /\ PageOf(args) = 3)
         => /\ result.is.totalPages = 3
            /\ ~result.is.hasNextPage /\ result.is.hasPrevPage

\* the pagination of 25 blogs in pages of 10 was computed for page 3
C29_Witness ==
  /\ Paged /\ args.total = 25 /\ SizeOf(args) = 10 /\ PageOf(args) = 3
  /\ result.is.totalPages = 3 /\ result.is.skip = 20

\* C30: the offset passed to the store is never negative and the page reported is
\* never below 1, whatever page the request names.
C30_PageClampedToOne ==
  Paged => result.is.skip >= 0 /\ result.is.currentPage >= 1

Searched == result # NoCall /\ result.fn = "search"

LowerAll(s) == [n \in DOMAIN s |-> Lower(s[n])]

\* the text holds the word as a run of consecutive characters
Contains(text, word) ==
  \E i \in 1..(Len(text) + 1) :
    /\ i + Len(word) - 1 <= Len(text)
    /\ \A j \in 1..Len(word) : text[i + j - 1] = word[j]

\* C31: for every search string, building the pattern does not throw, and the
\* pattern matches a text exactly when the text contains the trimmed search string
\* as a literal substring, ignoring case (metacharacters such as the ones of "c++"
\* are taken literally).
C31_SearchIsLiteralSubstring ==
  Searched =>
    /\ ~result.is.threw
    /\ result.is.matched = Contains(LowerAll(args.text), LowerAll(Trim(args.search)))

\* the search "c++" was applied to a text that holds "C++" and matched it
C31_Witness ==
  /\ Searched /\ args.search = <<"c", "+", "+">> /\ args.text = <<"C", "+", "+">>
  /\ ~result.is.threw /\ result.is.matched

ConnectFailed == result # NoCall /\ result.fn = "connectRedis" /\ ~args.connects

\* C32: once connecting to Redis has failed at start-up, getRedisClient() returns
\* null, so the middleware and clearCache find no client and issue no command.
C32_FailedConnectLeavesNoClient ==
  ConnectFailed => redis = "closed"

\* C33: a request whose method is not GET neither reads the cache nor stores its
\* response: it is never answered from the cache, res.json is never overridden for
\* it, and every cache entry was stored by a GET request.
C33_NonGetNeverCached ==
  /\ \A k \in DOMAIN cache : cache[k].src.method = "GET"
  /\ \A i \in Slots :
       req[i].pc # "idle" /\ req[i].method # "GET" =>
         /\ req[i].xcache = "" /\ ~req[i].override
         /\ req[i].from = NoSource

\* a HEAD request for a URL whose GET response is cached was answered by its
\* handler, and the entry was neither read nor replaced
C33_Witness ==
  /\ redis = "ready"
  /\ \E i \in Slots :
       /\ req[i].method = "HEAD" /\ req[i].pc = "done" /\ req[i].status = 200
       /\ req[i].ran = 1 /\ req[i].xcache = ""
       /\ req[i].key \in DOMAIN cache
       /\ cache[req[i].key].hits = 0 /\ cache[req[i].key].src.method = "GET"

\* C34: a write request that ends with a status outside 2xx (blog not found, store
\* error, access denied) never starts a cache deletion, and none of its steps
\* changes the set of cache entries.
C34_FailedWriteLeavesCacheAlone ==
  [][\A i \in Slots :
       (req'[i] # req[i] /\ req'[i].kind \in WriteKinds
          /\ ~(req'[i].status >= 200 /\ req'[i].status < 300)) =>
         /\ req'[i].pc \notin {"clear", "respond", "after"}
         /\ cache' = cache]_vars

\* a like of a blog that is gone was answered 404 while the cache held entries
C34_Witness ==
  \E i \in Slots :
    /\ req[i].kind = "like" /\ req[i].pc = "done" /\ req[i].status = 404
    /\ DOMAIN cache # {}

\* C35: a blog whose status is not 'published' is never returned by GET
\* /api/blogs/:id to anyone but its author, from the handler or from the cache.
C35_UnpublishedOnlyToAuthor ==
  \A i \in Slots :
    (/\ req[i].kind = "item" /\ req[i].pc = "done" /\ req[i].status = 200
     /\ req[i].id \in DOMAIN blogs /\ blogs[req[i].id].status # "published")
      => req[i].user = blogs[req[i].id].author

\* the step in which request i gets its answer: the handler calls res.json, or
\* the middleware answers from the cache
Answers(i) ==
  /\ req'[i] # req[i] /\ req'[i].kind = "item" /\ req'[i].method = "GET"
  /\ \/ req'[i].pc = "json"
     \/ req'[i].pc = "done" /\ req'[i].xcache = "HIT" /\ req[i].pc \in {"idle", "done"}

\* C36: every GET /api/blogs/:id that returns the blog increases the blog's view
\* counter by exactly one, and one that is answered 'not found' leaves every
\* counter as it was.
C36_ViewCountedOncePerReturnedBlog ==
  [][\A i \in Slots :
       Answers(i) =>
         /\ req'[i].status = 200 =>
              /\ req'[i].id \in DOMAIN blogs
              /\ blogs'[req'[i].id].views = blogs[req'[i].id].views + 1
         /\ req'[i].status = 404 => blogs' = blogs]_vars

\* C37: in every store state a blog whose status is 'published' has publishedAt
\* set, whether it was published when it was created or by a later update.
C37_PublishedHasPublishedAt ==
  \A id \in DOMAIN blogs :
    blogs[id].status = "published" => blogs[id].publishedAt # NoDate

\* C38: after any interleaving of toggleLike requests a blog's likes list holds at
\* most one like per user, so the like count is the number of distinct users who
\* like the blog.
C38_OneLikePerUser ==
  \A id \in DOMAIN blogs :
    /\ \A u \in Users :
         Cardinality({ n \in DOMAIN blogs[id].likes : blogs[id].likes[n] = u }) <= 1
    /\ likesCount(blogs[id]) =
         Cardinality({ blogs[id].likes[n] : n \in DOMAIN blogs[id].likes })

====
